---- MODULE Spec2Model ----
(***************************************************************************)
(* A model of the 52-card-pickup game: the game-flow state machine         *)
(* (src/state.rs, src/main.rs, src/menu.rs), the deck builder              *)
(* (src/cards.rs), the pointer observers and the two-phase animation       *)
(* pipeline with its completion handler (src/animator.rs).                 *)
(*                                                                         *)
(* Times are counted in tenths of the animation time unit and heights in   *)
(* tenths of a world unit, so that 1.0, 0.1 and 1.0 + 0.1 are the integers *)
(* 10, 1 and 11.  The deck is the cross product of the first NumRanks      *)
(* ranks and the first NumSuits suits; the literal 52 of the code          *)
(* (13 ranks x 4 suits) is DeckSize at NumRanks = 13, NumSuits = 4.        *)
(***************************************************************************)
EXTENDS Integers, Sequences, FiniteSets, TLC

\* ---------------------------------------------------------------- bounds
NumRanks == 2
NumSuits == 2
MaxSeed == 1
MinDelta == 5
MaxDelta == 6

\* ------------------------------------------------------ program constants
ANIMATION_DURATION == 10
WIN_EVENT_DELAY == 1
CARD_THICKNESS == 1
PICKUP_END_Y == 520
U8_MODULUS == 256

\* ------------------------------------------------------------ card model
RankNames == <<"Ace", "Two", "Three", "Four", "Five", "Six", "Seven",
               "Eight", "Nine", "Ten", "Jack", "Queen", "King">>

SuitNames == <<"Clubs", "Diamonds", "Hearts", "Spades">>

Rank_list == SubSeq(RankNames, 1, NumRanks)

Suit_list == SubSeq(SuitNames, 1, NumSuits)

DeckSize == Len(Rank_list) * Len(Suit_list)

Card(rank, suit, face_up, playable) ==
    [rank |-> rank, suit |-> suit, face_up |-> face_up, playable |-> playable]

\* ------------------------------------------------------------ deck builder
\* The nested loops of shuffle_deck, suits outermost and ranks innermost: the
\* n-th push has the rank of the inner loop and the suit of the outer loop.
DeckRank(n) == Rank_list[((n - 1) % Len(Rank_list)) + 1]

\* A deck builder whose outer loop variable is indexed like the inner one.
DeckSuit_Inner(n) == Suit_list[((n - 1) % Len(Suit_list)) + 1]

DeckSuit(n) == Suit_list[((n - 1) \div Len(Rank_list)) + 1]

RECURSIVE BuildDeck(_)
BuildDeck(n) ==
    IF n = 0 THEN <<>>
    ELSE Append(BuildDeck(n - 1), Card(DeckRank(n), DeckSuit(n), FALSE, FALSE))

Swap(s, i, j) == [s EXCEPT ![i] = s[j], ![j] = s[i]]

\* SliceRandom::shuffle: for i from len-1 down to 1, swap element i with the
\* element at a random index of 0..i.  The draws of the random source are
\* the mixed-radix digits of seed, so seeds 0..n!-1 give every permutation.
RECURSIVE Shuffle(_, _, _)
Shuffle(deck, i, seed) ==
    IF i < 1 THEN deck
    ELSE Shuffle(Swap(deck, i + 1, (seed % (i + 1)) + 1), i - 1, seed \div (i + 1))

shuffle_deck(seed) == Shuffle(BuildDeck(DeckSize), DeckSize - 1, seed)

RECURSIVE Factorial(_)
Factorial(n) == IF n <= 1 THEN 1 ELSE n * Factorial(n - 1)

AllSeeds == 0 .. (Factorial(DeckSize) - 1)

Seeds == 0 .. MaxSeed

Deltas == MinDelta .. MaxDelta

\* Rank::as_u8: Ace is 1, ..., King is 13.
Rank_as_u8(rank) == CHOOSE i \in 1 .. Len(RankNames) : RankNames[i] = rank

\* Suit::is_red.
Suit_is_red(suit) == suit \in {"Diamonds", "Hearts"}

\* Card::can_stack.
can_stack(self, other) ==
    /\ Rank_as_u8(self.rank) + 1 = Rank_as_u8(other.rank)
    /\ Suit_is_red(self.suit) # Suit_is_red(other.suit)

\* Every card of the full 13 x 4 deck, as Card::can_stack can receive it.
AllCards ==
    {Card(RankNames[r], SuitNames[s], FALSE, FALSE) :
        r \in 1 .. Len(RankNames), s \in 1 .. Len(SuitNames)}

\* ------------------------------------------------------------------ state
VARIABLES
    state,            \* State<GameState>: the active game state
    next_state,       \* NextState<GameState>: "Unchanged" or the pending state
    started,          \* the Startup schedule (setup_world) has run
    menu,             \* the UI panel with the Start button: "none", "hello", "win"
    cards,            \* the card entities, in spawn order
    cards_collected,  \* the CardsCollected resource (u8)
    pending,          \* animation events triggered in this frame, not yet observed
    rng,              \* the draws of the random source of a stepwise deal
    deck,             \* the local deck of a stepwise deal
    deal_pc,          \* position of a stepwise deal: "idle", "shuffle", "pop", "done"
    hovered,          \* the card entity under the pointer, 0 when none is tracked
    stack_args,       \* the (self, other) cards of a can_stack call, <<>> when none
    stack_result      \* the value returned by that call, <<>> before it returns

vars == <<state, next_state, started, menu, cards, cards_collected, pending,
          rng, deck, deal_pc, hovered, stack_args, stack_result>>

GameStates == {"Loading", "Menu", "Deal", "Play", "Win"}

Entities == 1 .. Len(cards)

Min(a, b) == IF a < b THEN a ELSE b

\* --------------------------------------------------- animation programs
\* The clip built by AnimationInfo::create: curves over [0, D] ending at
\* y = 52.0 and a CollectingCard event at t = D.
PickupClip ==
    [kind |-> "pickup", end_y |-> PICKUP_END_Y, win_event |-> FALSE]

\* The clip built by collect_card: a translation curve over [0, D] ending at
\* y = counter * CARD_THICKNESS, and the win callback at D + 0.1 when asked.
CollectionClip(counter, win) ==
    [kind |-> "collection", end_y |-> counter * CARD_THICKNESS, win_event |-> win]

\* AnimationClip::duration: the end of the curves, extended by a later event.
ClipDuration(clip) ==
    IF clip.win_event THEN ANIMATION_DURATION + WIN_EVENT_DELAY
    ELSE ANIMATION_DURATION

\* The collection clip carrying the CollectingCard event as well.
ClipEvents_EveryClip(clip, card) ==
    {<<ANIMATION_DURATION,
       [type |-> "CollectingCard", rank |-> card.rank, suit |-> card.suit]>>}
    \cup
    (IF clip.win_event
     THEN {<<ANIMATION_DURATION + WIN_EVENT_DELAY, [type |-> "WinFn"]>>}
     ELSE {})

\* The events of a clip as a set of <<time, event>> pairs.
ClipEvents(clip, card) ==
    (IF clip.kind = "pickup"
     THEN {<<ANIMATION_DURATION,
             [type |-> "CollectingCard", rank |-> card.rank, suit |-> card.suit]>>}
     ELSE {})
    \cup
    (IF clip.win_event
     THEN {<<ANIMATION_DURATION + WIN_EVENT_DELAY, [type |-> "WinFn"]>>}
     ELSE {})

\* AnimationPlayer::play: adds the node to the active animations at seek 0;
\* a node that is already active is left as it is.
Play(ent) ==
    IF ent.playing THEN ent ELSE [ent EXCEPT !.playing = TRUE, !.seek = 0]

\* AnimationPlayer::stop: removes the node from the active animations.
Stop(ent) == [ent EXCEPT !.playing = FALSE, !.seek = 0]

\* ---------------------------------------------------------------- deal
\* CardBundle::new with the observers of deal: the card's own back material,
\* the pickup clip installed, a default (idle) animation player.
CardBundle(card) ==
    [card     |-> card,
     material |-> "back",
     clip     |-> PickupClip,
     playing  |-> FALSE,
     seek     |-> 0,
     picked   |-> 0,
     collected |-> 0]

\* One iteration of `while let Some(mut card) = deck.pop()`.
SpawnPopped(d) == CardBundle([d[Len(d)] EXCEPT !.playable = TRUE])

RECURSIVE DealLoop(_, _)
DealLoop(d, world) ==
    IF d = <<>> THEN world
    ELSE DealLoop(SubSeq(d, 1, Len(d) - 1), Append(world, SpawnPopped(d)))

\* ------------------------------------------------------------------ Init
\* The CardsCollected resource starting at 1 instead of its default.
Init_CounterOne ==
    /\ state = "Loading"
    /\ next_state = "Unchanged"
    /\ started = FALSE
    /\ menu = "none"
    /\ cards = <<>>
    /\ cards_collected = 1
    /\ pending = {}
    /\ rng = 0
    /\ deck = <<>>
    /\ deal_pc = "idle"
    /\ hovered = 0
    /\ stack_args = <<>>
    /\ stack_result = <<>>

Init ==
    /\ state = "Loading"
    /\ next_state = "Unchanged"
    /\ started = FALSE
    /\ menu = "none"
    /\ cards = <<>>
    /\ cards_collected = 0
    /\ pending = {}
    /\ rng = 0
    /\ deck = <<>>
    /\ deal_pc = "idle"
    /\ hovered = 0
    /\ stack_args = <<>>
    /\ stack_result = <<>>

Quiet == pending = {} /\ deal_pc = "idle"

\* -------------------------------------------------------- game flow
setup_world ==
    /\ Quiet
    /\ ~started
    /\ started' = TRUE
    /\ next_state' = "Menu"
    /\ UNCHANGED <<state, menu, cards, cards_collected, pending, rng, deck, deal_pc, hovered, stack_args, stack_result>>

\* button_detector requesting Menu instead of Deal.
button_detector_ToMenu ==
    /\ Quiet
    /\ started
    /\ state \in {"Menu", "Win"}
    /\ menu # "none"
    /\ next_state' = "Menu"
    /\ UNCHANGED <<state, started, menu, cards, cards_collected, pending, rng, deck,
                   deal_pc, hovered, stack_args, stack_result>>

\* button_detector, scheduled in Update while in Menu or in Win: a pressed
\* Start button requests Deal.
button_detector ==
    /\ Quiet
    /\ started
    /\ state \in {"Menu", "Win"}
    /\ menu # "none"
    /\ next_state' = "Deal"
    /\ UNCHANGED <<state, started, menu, cards, cards_collected, pending, rng, deck,
                   deal_pc, hovered, stack_args, stack_result>>

\* deal, the OnEnter(Deal) system, as one step.
deal(world, seed) == DealLoop(shuffle_deck(seed), world)

\* Cards spawned without DespawnOnExit(GameState::Play).
ApplyStateTransition_NoDespawn ==
    /\ Quiet
    /\ started
    /\ next_state # "Unchanged"
    /\ LET exited == state
           entered == next_state
           menu_kept == IF exited \in {"Menu", "Win"} THEN "none" ELSE menu
       IN /\ state' = entered
          /\ menu' = CASE entered = "Menu" -> "hello"
                       [] entered = "Win" -> "win"
                       [] OTHER -> menu_kept
          /\ IF entered = "Deal"
             THEN /\ \E seed \in Seeds : cards' = deal(cards, seed)
                  /\ next_state' = "Play"
             ELSE /\ cards' = cards
                  /\ next_state' = "Unchanged"
    /\ UNCHANGED <<started, cards_collected, pending, rng, deck, deal_pc, hovered, stack_args, stack_result>>

\* deal without `game_state.set(GameState::Play)`.
ApplyStateTransition_DealNoRequest ==
    /\ Quiet
    /\ started
    /\ next_state # "Unchanged"
    /\ LET exited == state
           entered == next_state
           kept == IF exited = "Play" THEN <<>> ELSE cards
           menu_kept == IF exited \in {"Menu", "Win"} THEN "none" ELSE menu
       IN /\ state' = entered
          /\ menu' = CASE entered = "Menu" -> "hello"
                       [] entered = "Win" -> "win"
                       [] OTHER -> menu_kept
          /\ IF entered = "Deal"
             THEN \E seed \in Seeds : cards' = deal(kept, seed)
             ELSE cards' = kept
          /\ next_state' = "Unchanged"
          /\ hovered' = IF exited = "Play" THEN 0 ELSE hovered
    /\ UNCHANGED <<started, cards_collected, pending, rng, deck, deal_pc, stack_args, stack_result>>

\* The StateTransition schedule with a pending request: the exit teardown
\* (DespawnOnExit), the switch, and the OnEnter system of the new state.
ApplyStateTransition ==
    /\ Quiet
    /\ started
    /\ next_state # "Unchanged"
    /\ LET exited == state
           entered == next_state
           kept == IF exited = "Play" THEN <<>> ELSE cards
           menu_kept == IF exited \in {"Menu", "Win"} THEN "none" ELSE menu
       IN /\ state' = entered
          /\ menu' = CASE entered = "Menu" -> "hello"
                       [] entered = "Win" -> "win"
                       [] OTHER -> menu_kept
          /\ IF entered = "Deal"
             THEN /\ \E seed \in Seeds : cards' = deal(kept, seed)
                  /\ next_state' = "Play"
             ELSE /\ cards' = kept
                  /\ next_state' = "Unchanged"
          /\ hovered' = IF exited = "Play" THEN 0 ELSE hovered
    /\ UNCHANGED <<started, cards_collected, pending, rng, deck, deal_pc, stack_args, stack_result>>

\* ------------------------------------------------------ pointer observers
Eligible(card) == card.playable /\ ~card.face_up

\* pressed_card without `card.face_up = true`.
PressedCard_NoFaceUp(ent) ==
    IF Eligible(ent.card)
    THEN Play([ent EXCEPT !.card.playable = FALSE, !.picked = @ + 1])
    ELSE ent

\* pressed_card without `card.playable = false`.
PressedCard_NoPlayableReset(ent) ==
    IF Eligible(ent.card)
    THEN Play([ent EXCEPT !.card.face_up = TRUE, !.picked = @ + 1])
    ELSE ent

\* pressed_card without `animation_player.play(animation_node_index.0)`.
PressedCard_NoPlay(ent) ==
    IF Eligible(ent.card)
    THEN [ent EXCEPT !.card.playable = FALSE,
                     !.card.face_up = TRUE,
                     !.picked = @ + 1]
    ELSE ent

\* pressed_card without the `card.playable && !card.face_up` condition.
PressedCard_NoGuard(ent) ==
    Play([ent EXCEPT !.card.playable = FALSE,
                     !.card.face_up = TRUE,
                     !.picked = @ + 1])

\* The body of pressed_card on the entity it targets.
PressedCard(ent) ==
    IF Eligible(ent.card)
    THEN Play([ent EXCEPT !.card.playable = FALSE,
                          !.card.face_up = TRUE,
                          !.picked = @ + 1])
    ELSE ent

\* pressed_card also writing the CardsCollected resource.
pressed_card_Counts(e) ==
    /\ Quiet
    /\ e \in Entities
    /\ cards' = [cards EXCEPT ![e] = PressedCard(cards[e])]
    /\ cards_collected' = IF Eligible(cards[e].card)
                          THEN (cards_collected + 1) % U8_MODULUS
                          ELSE cards_collected
    /\ UNCHANGED <<state, next_state, started, menu, pending, rng, deck, deal_pc, stack_args, stack_result>>

pressed_card(e) ==
    /\ Quiet
    /\ e \in Entities
    /\ cards' = [cards EXCEPT ![e] = PressedCard(cards[e])]
    /\ UNCHANGED <<state, next_state, started, menu, cards_collected, pending,
                   rng, deck, deal_pc, stack_args, stack_result>>

\* update_material_on without the `card.playable && !card.face_up` condition.
UpdateMaterial_NoGuard(ent, new_material) == [ent EXCEPT !.material = new_material]

\* The closure returned by update_material_on(new_material).
UpdateMaterial(ent, new_material) ==
    IF Eligible(ent.card) THEN [ent EXCEPT !.material = new_material] ELSE ent

\* The material each observer of deal captures: Over and Release the hover
\* material, Out the card's own back material.
ObserverMaterial(kind) ==
    CASE kind = "Over" -> "hover"
      [] kind = "Out" -> "back"
      [] kind = "Release" -> "hover"

update_material_on(kind, e) ==
    /\ Quiet
    /\ e \in Entities
    /\ cards' = [cards EXCEPT ![e] = UpdateMaterial(cards[e], ObserverMaterial(kind))]
    /\ UNCHANGED <<state, next_state, started, menu, cards_collected, pending,
                   rng, deck, deal_pc, stack_args, stack_result>>

\* ------------------------------------------------------ animation playback
\* One frame of playback of an entity's player: the seek time advances by the
\* frame's delta and stops at the end of the clip.
Advance(ent, delta) ==
    IF ent.playing /\ ent.seek < ClipDuration(ent.clip)
    THEN [ent EXCEPT !.seek = Min(@ + delta, ClipDuration(ent.clip))]
    ELSE ent

\* The events of the clip whose time the seek passes in this frame.
Triggered(ent, delta) ==
    {p[2] : p \in {q \in ClipEvents(ent.clip, ent.card) :
                      /\ ent.playing
                      /\ ent.seek < q[1]
                      /\ Advance(ent, delta).seek >= q[1]}}

\* One frame of the animation systems (PostUpdate): every player advances by
\* the same delta; the events passed are triggered.  A pending state request
\* is applied by StateTransition before the frame gets here.
AdvanceAnimations(delta) ==
    /\ Quiet
    /\ started
    /\ next_state = "Unchanged"
    /\ cards' = [e \in Entities |-> Advance(cards[e], delta)]
    /\ pending' = UNION {Triggered(cards[e], delta) : e \in Entities}
    /\ UNCHANGED <<state, next_state, started, menu, cards_collected, rng, deck, deal_pc,
                   hovered, stack_args, stack_result>>

\* ------------------------------------------------------ completion handler
WinThreshold == DeckSize

\* The condition of collect_card without `card.suit == event.card.suit`.
Matches_RankOnly(ent, ev) ==
    /\ ent.card.rank = ev.rank
    /\ ~ent.card.playable
    /\ ent.card.face_up

\* The condition of the `if` in collect_card's loop.
Matches(ent, ev) ==
    /\ ent.card.rank = ev.rank
    /\ ent.card.suit = ev.suit
    /\ ~ent.card.playable
    /\ ent.card.face_up

\* collect_card building the clip before `cards_collected.0 += 1`.
CollectBranch_StaleCounter(ent, counter) ==
    LET incremented == (counter + 1) % U8_MODULUS
        win == incremented >= WinThreshold
    IN [ent |-> Play(Stop([ent EXCEPT !.clip = CollectionClip(counter, win),
                                      !.collected = @ + 1])),
        counter |-> IF win THEN 0 ELSE incremented]

\* collect_card without `animation_player.stop(animation_node_id.0)`.
CollectBranch_NoStop(ent, counter) ==
    LET incremented == (counter + 1) % U8_MODULUS
        win == incremented >= WinThreshold
    IN [ent |-> Play([ent EXCEPT !.clip = CollectionClip(incremented, win),
                                 !.collected = @ + 1]),
        counter |-> IF win THEN 0 ELSE incremented]

\* collect_card with `cards_collected.0 >= 51`.
CollectBranch_EarlyWin(ent, counter) ==
    LET incremented == (counter + 1) % U8_MODULUS
        win == incremented >= WinThreshold - 1
    IN [ent |-> Play(Stop([ent EXCEPT !.clip = CollectionClip(incremented, win),
                                      !.collected = @ + 1])),
        counter |-> IF win THEN 0 ELSE incremented]

\* collect_card building the collection program after the reset of the counter.
CollectBranch_HeightAfterReset(ent, counter) ==
    LET incremented == (counter + 1) % U8_MODULUS
        win == incremented >= WinThreshold
        after == IF win THEN 0 ELSE incremented
    IN [ent |-> Play(Stop([ent EXCEPT !.clip = CollectionClip(after, win),
                                      !.collected = @ + 1])),
        counter |-> after]

\* collect_card without `cards_collected.0 = 0`.
CollectBranch_NoReset(ent, counter) ==
    LET incremented == (counter + 1) % U8_MODULUS
        win == incremented >= WinThreshold
    IN [ent |-> Play(Stop([ent EXCEPT !.clip = CollectionClip(incremented, win),
                                      !.collected = @ + 1])),
        counter |-> incremented]

\* The body of that `if`: increment, build the collection clip from the new
\* counter value, add the win callback and reset at 52, swap the programs.
CollectBranch(ent, counter) ==
    LET incremented == (counter + 1) % U8_MODULUS
        win == incremented >= WinThreshold
    IN [ent |-> Play(Stop([ent EXCEPT !.clip = CollectionClip(incremented, win),
                                      !.collected = @ + 1])),
        counter |-> IF win THEN 0 ELSE incremented]

\* The `for ... in query` loop of collect_card over all card entities.
RECURSIVE CollectLoop(_, _, _, _)
CollectLoop(world, i, counter, ev) ==
    IF i > Len(world) THEN [world |-> world, counter |-> counter]
    ELSE IF Matches(world[i], ev)
         THEN LET r == CollectBranch(world[i], counter)
              IN CollectLoop([world EXCEPT ![i] = r.ent], i + 1, r.counter, ev)
         ELSE CollectLoop(world, i + 1, counter, ev)

collect_card(ev) ==
    /\ ev \in pending
    /\ ev.type = "CollectingCard"
    /\ LET r == CollectLoop(cards, 1, cards_collected, ev)
       IN /\ cards' = r.world
          /\ cards_collected' = r.counter
    /\ pending' = pending \ {ev}
    /\ UNCHANGED <<state, next_state, started, menu, rng, deck, deal_pc, hovered, stack_args, stack_result>>

\* The closure switching the state itself instead of requesting the switch.
win_event_fn_Sync(ev) ==
    /\ ev \in pending
    /\ ev.type = "WinFn"
    /\ state' = "Win"
    /\ pending' = pending \ {ev}
    /\ UNCHANGED <<next_state, started, menu, cards, cards_collected, rng, deck,
                   deal_pc, hovered, stack_args, stack_result>>

\* The closure given to add_event_fn: commands.set_state(GameState::Win).
win_event_fn(ev) ==
    /\ ev \in pending
    /\ ev.type = "WinFn"
    /\ next_state' = "Win"
    /\ pending' = pending \ {ev}
    /\ UNCHANGED <<state, started, menu, cards, cards_collected, rng, deck, deal_pc, hovered, stack_args, stack_result>>

\* ------------------------------------------------------------ specification
\* In Spec the pointer source is unconstrained: any notification may reach
\* any card at any time, and the pointer's position is not tracked.
Press == \E e \in Entities : pressed_card(e) /\ UNCHANGED hovered

Hover ==
    \E e \in Entities, kind \in {"Over", "Out", "Release"} :
        update_material_on(kind, e) /\ UNCHANGED hovered

Animate == \E delta \in Deltas : AdvanceAnimations(delta)

Collect == \E ev \in pending : collect_card(ev)

WinFn == \E ev \in pending : win_event_fn(ev)

Next ==
    \/ setup_world
    \/ button_detector
    \/ ApplyStateTransition
    \/ Press
    \/ Hover
    \/ Animate
    \/ Collect
    \/ WinFn

Spec == Init /\ [][Next]_vars

\* The update loop keeps running its schedules: startup, state transitions,
\* animation playback and the observers of triggered events.  Pointer and
\* button input is the player's and is not forced.
SpecLive ==
    /\ Spec
    /\ WF_vars(setup_world)
    /\ WF_vars(ApplyStateTransition)
    /\ WF_vars(Animate)
    /\ WF_vars(Collect)
    /\ WF_vars(WinFn)

\* ------------------------------------------------ one tracked pointer
\* The notifications of a single pointer: Over a card when it is over none,
\* Out of, Press on and Release on the card it is over.
PointerOver ==
    \E e \in Entities :
        /\ hovered = 0
        /\ update_material_on("Over", e)
        /\ hovered' = e

PointerOut ==
    \E e \in Entities :
        /\ hovered = e
        /\ update_material_on("Out", e)
        /\ hovered' = 0

PointerPress ==
    \E e \in Entities :
        /\ hovered = e
        /\ pressed_card(e)
        /\ UNCHANGED hovered

PointerRelease ==
    \E e \in Entities :
        /\ hovered = e
        /\ update_material_on("Release", e)
        /\ UNCHANGED hovered

NextPointer ==
    \/ setup_world
    \/ button_detector
    \/ ApplyStateTransition
    \/ PointerOver
    \/ PointerOut
    \/ PointerPress
    \/ PointerRelease
    \/ Animate
    \/ Collect
    \/ WinFn

SpecPointer == Init /\ [][NextPointer]_vars

\* ------------------------------------------------------- deal, step by step
InitDeal ==
    /\ state = "Deal"
    /\ next_state = "Unchanged"
    /\ started = TRUE
    /\ menu = "none"
    /\ cards = <<>>
    /\ cards_collected = 0
    /\ pending = {}
    /\ rng \in AllSeeds
    /\ deck = <<>>
    /\ deal_pc = "shuffle"
    /\ hovered = 0
    /\ stack_args = <<>>
    /\ stack_result = <<>>

DealShuffle ==
    /\ deal_pc = "shuffle"
    /\ deck' = shuffle_deck(rng)
    /\ deal_pc' = "pop"
    /\ UNCHANGED <<state, next_state, started, menu, cards, cards_collected, pending, rng,
                   hovered, stack_args, stack_result>>

DealPop ==
    /\ deal_pc = "pop"
    /\ deck # <<>>
    /\ cards' = Append(cards, SpawnPopped(deck))
    /\ deck' = SubSeq(deck, 1, Len(deck) - 1)
    /\ UNCHANGED <<state, next_state, started, menu, cards_collected, pending, rng, deal_pc,
                   hovered, stack_args, stack_result>>

DealFinish ==
    /\ deal_pc = "pop"
    /\ deck = <<>>
    /\ next_state' = "Play"
    /\ deal_pc' = "done"
    /\ UNCHANGED <<state, started, menu, cards, cards_collected, pending, rng, deck, hovered, stack_args, stack_result>>

NextDeal == DealShuffle \/ DealPop \/ DealFinish

SpecDeal == InitDeal /\ [][NextDeal]_vars

\* ------------------------------------------------ a call of Card::can_stack
\* The program never calls can_stack; here it is called once on any two cards.
InitStack ==
    /\ state = "Loading"
    /\ next_state = "Unchanged"
    /\ started = FALSE
    /\ menu = "none"
    /\ cards = <<>>
    /\ cards_collected = 0
    /\ pending = {}
    /\ rng = 0
    /\ deck = <<>>
    /\ deal_pc = "idle"
    /\ hovered = 0
    /\ stack_args \in {<<a, b>> : a \in AllCards, b \in AllCards}
    /\ stack_result = <<>>

CanStackCall ==
    /\ stack_args # <<>>
    /\ stack_result = <<>>
    /\ stack_result' = <<can_stack(stack_args[1], stack_args[2])>>
    /\ UNCHANGED <<state, next_state, started, menu, cards, cards_collected, pending,
                   rng, deck, deal_pc, hovered, stack_args>>

NextStack == CanStackCall

SpecStack == InitStack /\ [][NextStack]_vars

\* ------------------------------------------------------------------ claims
PairsDistinct(world) ==
    \A i, j \in 1 .. Len(world) :
        (world[i].card.rank = world[j].card.rank /\ world[i].card.suit = world[j].card.suit)
            => i = j

\* C1: a Press on an eligible card sets playable to false and face_up to true
\* in that step and starts the card's pickup program, leaving the other cards
\* alone; and whatever presses a card receives, its pickup program has been
\* started exactly once if it is face up and never if it is not.
C1_PressFlipsOnce ==
    [][ /\ \A e \in Entities :
              (pressed_card(e) /\ Eligible(cards[e].card)) =>
                  /\ cards'[e].card.playable = FALSE
                  /\ cards'[e].card.face_up = TRUE
                  /\ ~cards[e].playing
                  /\ cards'[e].playing
                  /\ cards'[e].seek = 0
                  /\ cards'[e].clip = PickupClip
                  /\ cards'[e].picked = cards[e].picked + 1
                  /\ \A o \in Entities \ {e} : cards'[o] = cards[o]
        /\ \A e \in 1 .. Len(cards') :
              cards'[e].picked = (IF cards'[e].card.face_up THEN 1 ELSE 0)
      ]_vars

C1_Witness ==
    \E e \in Entities :
        /\ cards[e].picked = 1
        /\ cards[e].card.face_up
        /\ ~cards[e].card.playable
        /\ cards[e].playing
        /\ cards[e].clip.kind = "pickup"
        /\ cards[e].seek > 0

\* C2: a Press on a card that is not eligible changes nothing: not the cards
\* (flags, installed program, playback), not the counter, not the game state
\* nor the pending state request.
C2_IneligiblePressIgnored ==
    [][ \A e \in Entities :
            (pressed_card(e) /\ ~Eligible(cards[e].card)) =>
                UNCHANGED <<cards, cards_collected, state, next_state, pending>>
      ]_vars

C2_Witness ==
    \E e \in Entities :
        /\ ~Eligible(cards[e].card)
        /\ ENABLED pressed_card(e)
        /\ cards[e].clip.kind = "collection"
        /\ cards[e].seek = ClipDuration(cards[e].clip)

\* C3: the handling of a card's pickup completion finds exactly one matching
\* card, installs one collection program on it whose target height is the
\* incremented counter times CARD_THICKNESS, restarts playback on it, and
\* leaves the counter at the incremented value (at 0 when that value is the
\* deck size).
C3_CollectIncrementsThenBuilds ==
    [][ \A ev \in pending :
            collect_card(ev) =>
                /\ Cardinality({e \in Entities : Matches(cards[e], ev)}) = 1
                /\ \A e \in Entities :
                      Matches(cards[e], ev) =>
                          /\ cards'[e].clip.kind = "collection"
                          /\ cards'[e].clip.end_y = (cards_collected + 1) * CARD_THICKNESS
                          /\ cards'[e].collected = cards[e].collected + 1
                          /\ cards'[e].collected = 1
                          /\ cards'[e].playing
                          /\ cards'[e].seek = 0
                /\ cards_collected' =
                      (IF cards_collected + 1 = DeckSize THEN 0 ELSE cards_collected + 1)
      ]_vars

C3_Witness ==
    \E e \in Entities :
        /\ cards[e].clip.kind = "collection"
        /\ cards_collected >= 2
        /\ cards[e].clip.end_y = cards_collected * CARD_THICKNESS
        /\ cards[e].seek = 0

\* The cards of the round whose collection program has been installed.
Installed(world) == {e \in 1 .. Len(world) : world[e].collected > 0}

WinClips(world) == {e \in 1 .. Len(world) : world[e].clip.win_event}

AllFaceUp ==
    /\ state = "Play"
    /\ Len(cards) = DeckSize
    /\ \A e \in Entities : cards[e].card.face_up

\* C5: under the fairness of the update loop, once every card of the round
\* has been pressed in Play, the game state eventually becomes Win.
C5_AllPressedLeadsToWin == AllFaceUp ~> (state = "Win")

C5_Witness ==
    /\ state = "Win"
    /\ menu = "win"
    /\ cards = <<>>

AllowedTransitions ==
    {<<"Loading", "Menu">>, <<"Menu", "Deal">>, <<"Deal", "Play">>,
     <<"Play", "Win">>, <<"Win", "Deal">>}

\* C6: the game state starts at Loading; every state switch is one of
\* Loading->Menu, Menu->Deal, Deal->Play, Play->Win, Win->Deal; Deal is
\* entered only on a request made by the Start button.
C6_GameFlowTransitions ==
    /\ state = "Loading"
    /\ [][ /\ (state' # state \/ ApplyStateTransition) =>
                 <<state, state'>> \in AllowedTransitions
           /\ (next_state' = "Deal" /\ next_state # "Deal") => button_detector
           /\ (state' = "Deal" /\ state # "Deal") => next_state = "Deal"
         ]_vars

C6_Witness ==
    /\ state = "Win"
    /\ next_state = "Deal"

FreshCards(world) ==
    /\ Len(world) = DeckSize
    /\ PairsDistinct(world)
    /\ \A e \in 1 .. Len(world) :
          /\ world[e].card.playable
          /\ ~world[e].card.face_up

\* C7: the live cards are none or one full deck of pairwise distinct
\* (rank, suit), and none in Loading, Menu and Win; every entry into Deal
\* leaves exactly one fresh deck of eligible cards; every exit from Play
\* leaves no card.
C7_DealSpawnsPlayExitDespawns ==
    /\ [](/\ Len(cards) \in {0, DeckSize}
          /\ PairsDistinct(cards)
          /\ state \in {"Loading", "Menu", "Win"} => cards = <<>>)
    /\ [][ /\ (state' = "Deal" /\ ApplyStateTransition) => FreshCards(cards')
           /\ (state = "Play" /\ state' # "Play") => cards' = <<>>
         ]_vars

C7_Witness ==
    /\ state = "Deal"
    /\ FreshCards(cards)
    /\ cards # DealLoop(BuildDeck(DeckSize), <<>>)

\* C8: whatever the random source draws, shuffle_deck returns DeckSize cards
\* in which every (rank, suit) of the cross product appears exactly once,
\* each with face_up = false and playable = false.
C8_ShuffleIsFullDeck ==
    (deal_pc = "pop" /\ cards = <<>>) =>
        /\ Len(deck) = DeckSize
        /\ \A r \in 1 .. Len(Rank_list), s \in 1 .. Len(Suit_list) :
              Cardinality({i \in 1 .. Len(deck) :
                              /\ deck[i].rank = Rank_list[r]
                              /\ deck[i].suit = Suit_list[s]}) = 1
        /\ \A i \in 1 .. Len(deck) :
              /\ deck[i].face_up = FALSE
              /\ deck[i].playable = FALSE

C8_Witness ==
    /\ deal_pc = "pop"
    /\ cards = <<>>
    /\ Len(deck) = DeckSize
    /\ deck[1] = BuildDeck(DeckSize)[DeckSize]
    /\ deck[DeckSize] # BuildDeck(DeckSize)[1]

\* C9: the counter goes back to 0 only in the step that enters Win.
C9_ResetAtWinEntry ==
    [][ (cards_collected # 0 /\ cards_collected' = 0) =>
            (state # "Win" /\ state' = "Win")
      ]_vars

\* C10: every live card has playable = ~face_up, and a card that is face up
\* and not playable keeps its flags for as long as it lives.
C10_FlagsIrreversible ==
    /\ [](\A e \in Entities : cards[e].card.playable = ~cards[e].card.face_up)
    /\ [][ \A e \in Entities :
              (/\ ~cards[e].card.playable
               /\ cards[e].card.face_up
               /\ e \in 1 .. Len(cards')) =>
                  /\ ~cards'[e].card.playable
                  /\ cards'[e].card.face_up
         ]_vars

C10_Witness ==
    \E e, o \in Entities :
        /\ cards[e].card.face_up
        /\ ~cards[e].card.playable
        /\ cards[e].clip.kind = "collection"
        /\ cards[e].seek = ClipDuration(cards[e].clip)
        /\ Eligible(cards[o].card)

\* C11: a Leave notification on a card leaves that card showing its own back
\* material.
C11_LeaveRestoresBack ==
    [][ \A e \in Entities :
            (hovered = e /\ hovered' = 0 /\ update_material_on("Out", e)) =>
                cards'[e].material = "back"
      ]_vars

\* C12: an Enter or a Release notification gives an eligible card the hover
\* material and leaves an ineligible card as it is; an Enter, Leave or Release
\* notification changes nothing but the material of the card it targets.
C12_HoverOnlyWhenEligible ==
    [][ \A e \in Entities, kind \in {"Over", "Out", "Release"} :
            update_material_on(kind, e) =>
                /\ (kind # "Out" /\ Eligible(cards[e].card)) => cards'[e].material = "hover"
                /\ ~Eligible(cards[e].card) => cards'[e] = cards[e]
                /\ cards'[e] = [cards[e] EXCEPT !.material = cards'[e].material]
                /\ \A o \in Entities \ {e} : cards'[o] = cards[o]
                /\ Len(cards') = Len(cards)
                /\ UNCHANGED <<cards_collected, state, next_state, pending>>
      ]_vars

C12_Witness ==
    \E e, o \in Entities :
        /\ Eligible(cards[e].card)
        /\ cards[e].material = "hover"
        /\ ~Eligible(cards[o].card)
        /\ cards[o].material = "back"
        /\ cards[o].clip.kind = "collection"

\* The lifecycle position of a card: 1 Dealt, 2 Rising, 3 Collecting,
\* 4 Stacked (the collection program has reached its nominal duration).
Phase(ent) ==
    CASE ent.clip.kind = "pickup" /\ ~ent.playing -> 1
      [] ent.clip.kind = "pickup" /\ ent.playing -> 2
      [] ent.clip.kind = "collection" /\ ent.seek < ANIMATION_DURATION -> 3
      [] OTHER -> 4

CompletionOf(ent) ==
    [type |-> "CollectingCard", rank |-> ent.card.rank, suit |-> ent.card.suit]

\* C13: a live card stays in its lifecycle position or moves to the next one;
\* it leaves Dealt only by an accepted Press, it leaves Rising only by the
\* handling of its own completion event, triggered when its pickup program
\* reached ANIMATION_DURATION; its installed program changes in that step
\* only, so at most one collection program is ever installed on it.
C13_LifecycleOrder ==
    [][ \A e \in Entities :
            e \in 1 .. Len(cards') =>
                /\ Phase(cards'[e]) \in {Phase(cards[e]), Phase(cards[e]) + 1}
                /\ (Phase(cards[e]) = 1 /\ Phase(cards'[e]) = 2) =>
                      (pressed_card(e) /\ Eligible(cards[e].card))
                /\ (Phase(cards[e]) = 2 /\ Phase(cards'[e]) = 3) =>
                      /\ cards[e].seek = ANIMATION_DURATION
                      /\ cards[e].picked = 1
                      /\ CompletionOf(cards[e]) \in pending
                      /\ collect_card(CompletionOf(cards[e]))
                      /\ cards'[e].seek = 0
                /\ (cards'[e].clip # cards[e].clip) =>
                      (Phase(cards[e]) = 2 /\ Phase(cards'[e]) = 3)
                /\ cards'[e].collected =
                      (IF cards'[e].clip.kind = "collection" THEN 1 ELSE 0)
      ]_vars

C13_Witness ==
    \E a, b, c \in Entities :
        /\ Phase(cards[a]) = 4
        /\ Phase(cards[b]) = 3
        /\ cards[b].seek > 0
        /\ Phase(cards[c]) = 2
        /\ cards[c].seek > 0

\* C14: the handling of a completion event changes exactly one card, the one
\* with the event's rank and suit, face up and not playable; every card with
\* another rank or suit keeps its flags, program and playback; one collection
\* program more is installed and the counter moves by one increment (back to 0
\* from the deck size).
C14_CollectTouchesOnlyItsCard ==
    [][ \A ev \in pending :
            collect_card(ev) =>
                /\ Len(cards') = Len(cards)
                /\ \A e \in Entities :
                      (cards[e].card.rank # ev.rank \/ cards[e].card.suit # ev.suit) =>
                          cards'[e] = cards[e]
                /\ Cardinality({e \in Entities : cards'[e] # cards[e]}) = 1
                /\ \A e \in Entities :
                      cards'[e] # cards[e] =>
                          /\ ~cards[e].card.playable
                          /\ cards[e].card.face_up
                          /\ cards'[e].card = cards[e].card
                /\ Cardinality(Installed(cards')) = Cardinality(Installed(cards)) + 1
                /\ cards_collected' - cards_collected \in {1, 1 - DeckSize}
      ]_vars

C14_Witness ==
    \E e, o \in Entities :
        /\ cards[e].collected = 1
        /\ cards[e].seek = 0
        /\ cards[o].card.rank = cards[e].card.rank
        /\ cards[o].card.suit # cards[e].card.suit
        /\ cards[o].card.face_up
        /\ cards[o].clip.kind = "pickup"
        /\ cards_collected = 1

\* C15: a card whose program is playing and has not reached
\* ANIMATION_DURATION is still alive after the step, with the same program
\* still playing and not rewound; and the step that enters Win starts from a
\* full deck of cards whose collection programs have all reached
\* ANIMATION_DURATION.
C15_NoProgramCutShort ==
    [][ /\ \A e \in Entities :
              (cards[e].playing /\ cards[e].seek < ANIMATION_DURATION) =>
                  /\ e \in 1 .. Len(cards')
                  /\ cards'[e].card.rank = cards[e].card.rank
                  /\ cards'[e].card.suit = cards[e].card.suit
                  /\ cards'[e].clip = cards[e].clip
                  /\ cards'[e].playing
                  /\ cards'[e].seek >= cards[e].seek
        /\ (state' = "Win" /\ state # "Win") =>
              /\ Len(cards) = DeckSize
              /\ \A e \in Entities :
                    /\ cards[e].clip.kind = "collection"
                    /\ cards[e].seek >= ANIMATION_DURATION
      ]_vars

C15_Witness ==
    /\ state = "Play"
    /\ next_state = "Win"
    /\ Len(cards) = DeckSize
    /\ \A e \in Entities : Phase(cards[e]) = 4
    /\ \E e \in Entities : cards[e].clip.end_y = CARD_THICKNESS /\ ~cards[e].clip.win_event

\* C16: a step that changes the collected counter is the handling of a
\* pickup-completion event by collect_card; the startup system, the Start
\* button, the state transition with the deal action, Press, Enter, Leave and
\* Release notifications, animation playback and the deferred win action
\* leave the counter unchanged.
C16_CounterSingleWriter ==
    [][ /\ (cards_collected' # cards_collected) =>
              \E ev \in pending : ev.type = "CollectingCard" /\ collect_card(ev)
        /\ ( \/ setup_world
             \/ button_detector
             \/ ApplyStateTransition
             \/ Press
             \/ Hover
             \/ Animate
             \/ WinFn ) => cards_collected' = cards_collected
      ]_vars

C16_Witness ==
    /\ state = "Play"
    /\ cards_collected = 2
    /\ Cardinality(Installed(cards)) = 2
    /\ \E e \in Entities : Phase(cards[e]) = 2 /\ cards[e].seek > 0
    /\ \E e \in Entities : cards[e].material = "hover"

\* C17: the collected counter is always between 0 and the deck size, hence
\* below the 8-bit modulus.
C17_CounterInRange ==
    /\ cards_collected \in 0 .. DeckSize
    /\ cards_collected < U8_MODULUS

C17_Witness ==
    /\ cards_collected = DeckSize - 1
    /\ state = "Play"
    /\ Cardinality(Installed(cards)) = DeckSize - 1

Heights(world) == {world[e].clip.end_y : e \in Installed(world)}

\* C18: the collection programs installed in a round have the stack heights
\* 1 x CARD_THICKNESS .. k x CARD_THICKNESS for k collected cards, one card per
\* height, and a collect_card step gives its card a height above every height
\* assigned before it in the round.
C18_StackHeights ==
    /\ [](/\ Heights(cards) =
                {k * CARD_THICKNESS : k \in 1 .. Cardinality(Installed(cards))}
          /\ \A a, b \in Installed(cards) :
                cards[a].clip.end_y = cards[b].clip.end_y => a = b)
    /\ [][ \A e \in Entities :
              (e \in Installed(cards') /\ e \notin Installed(cards)) =>
                  /\ cards'[e].clip.end_y =
                        (Cardinality(Installed(cards)) + 1) * CARD_THICKNESS
                  /\ \A o \in Installed(cards) :
                        cards'[e].clip.end_y > cards[o].clip.end_y ]_vars

C18_Witness ==
    /\ Cardinality(Installed(cards)) = DeckSize
    /\ Heights(cards) = {k * CARD_THICKNESS : k \in 1 .. DeckSize}
    /\ cards_collected = 0
    /\ state = "Play"

\* C19: the game state changes only in a StateTransition step applying a
\* request that was pending before the step; the teardown of the old state's
\* objects and the entry action of the new state happen in that step only; a
\* step that issues a request does not switch to the requested state.
C19_RequestsAreAsynchronous ==
    [][ /\ (state' # state) =>
              /\ next_state = state'
              /\ ApplyStateTransition
        /\ (next_state' # next_state /\ next_state' # "Unchanged") =>
              /\ state' # next_state'
              /\ \/ state' = state
                 \/ (next_state = "Deal" /\ state' = "Deal" /\ next_state' = "Play")
        /\ (Len(cards') # Len(cards) \/ menu' # menu) => state' # state
      ]_vars

C19_Witness ==
    /\ state = "Menu"
    /\ next_state = "Deal"
    /\ menu = "hello"
    /\ Len(cards) = 0

\* C20: under fairness of the update loop, and with no input, Loading leads
\* to Menu, and Deal leads to Play with the full deck of pairwise distinct
\* cards dealt.
C20_AutomaticTransitions ==
    /\ (state = "Loading") ~> (state = "Menu")
    /\ (state = "Deal") ~>
          (state = "Play" /\ Len(cards) = DeckSize /\ PairsDistinct(cards))

C20_Witness ==
    /\ state = "Play"
    /\ next_state = "Unchanged"
    /\ FreshCards(cards)
    /\ \A e \in Entities : cards[e].material = "back"
    /\ cards_collected = 0

\* C21: can_stack(self, other) returns true exactly when other is one rank
\* lower than self and the two suits are of opposite colour.
C21_CanStackOneLower ==
    stack_result # <<>> =>
        (stack_result[1] <=>
            /\ Rank_as_u8(stack_args[2].rank) + 1 = Rank_as_u8(stack_args[1].rank)
            /\ Suit_is_red(stack_args[1].suit) # Suit_is_red(stack_args[2].suit))

\* C22: the collected counter is 0 before and after every step that enters
\* Deal; the first card collected in a round gets the height
\* 1 x CARD_THICKNESS; a collect_card step builds the win callback exactly
\* when it collects the last card of the deck; and the Win request is
\* issued only with the whole deck collected.
C22_RoundStartsClean ==
    [][ /\ (state' = "Deal" /\ state # "Deal") =>
              (cards_collected = 0 /\ cards_collected' = 0)
        /\ \A ev \in pending :
              collect_card(ev) =>
                  \A e \in Installed(cards') \ Installed(cards) :
                      /\ (Installed(cards) = {}) =>
                            cards'[e].clip.end_y = CARD_THICKNESS
                      /\ cards'[e].clip.win_event <=>
                            (Cardinality(Installed(cards')) = DeckSize)
        /\ (next_state' = "Win" /\ next_state # "Win") =>
              /\ Len(cards) = DeckSize
              /\ Cardinality(Installed(cards)) = DeckSize
      ]_vars

C22_Witness ==
    /\ state = "Play"
    /\ cards_collected = 1
    /\ Cardinality(Installed(cards)) = 1
    /\ \A e \in Installed(cards) :
          /\ cards[e].clip.end_y = CARD_THICKNESS
          /\ ~cards[e].clip.win_event
          /\ cards[e].seek > 0

Collected(world) == {e \in 1 .. Len(world) : world[e].clip.kind = "collection"}

\* C23: no card is counted twice, and the counter equals the number of live
\* cards with a collection program installed, modulo the deck size.
C23_NoDoubleCount ==
    /\ \A e \in Entities : cards[e].collected <= 1
    /\ Installed(cards) = Collected(cards)
    /\ cards_collected = Cardinality(Collected(cards)) % DeckSize

C23_Witness ==
    /\ cards_collected = DeckSize - 1
    /\ Cardinality(Collected(cards)) = DeckSize - 1
    /\ \E e \in Entities :
          /\ Phase(cards[e]) = 2
          /\ cards[e].seek = ANIMATION_DURATION
          /\ CompletionOf(cards[e]) \in pending

====
